---- MODULE Spec2Model ----
(***************************************************************************)
(* The two tile-recycling engines of src/core/masonry.ts:                  *)
(*   - the patch engine (class Masonry, lines 29-360): a 2-D grid of rows  *)
(*     of tiles, stitched at the edges on every pan;                       *)
(*   - the wrap engine (default-export class Masonry, lines 387-655): a    *)
(*     fixed flat pool of tiles whose coordinates wrap around a range;     *)
(* and the configuration validation both constructors start with.          *)
(* Coordinates are integers (pixels), an image source is its index in the  *)
(* configured source list.                                                 *)
(***************************************************************************)
EXTENDS Integers, Sequences, FiniteSets

VARIABLES
  engine,        \* "patch" or "wrap": which class the instance is of
  options,       \* the configuration object handed to the constructor
  phase,         \* "new", "threw", "configured", "loading", "ready",
                 \* "destroyed"; "loadingDestroyed": destroy() was called
                 \* while the images were loading
  canvasWidth,   \* #canvasWidth
  canvasHeight,  \* #canvasHeight
  gridItems,     \* patch engine #gridItems: rows of tiles
  images,        \* wrap engine #images: flat tile pool
  moveable,      \* #moveable (drag state)
  disabledH,     \* patch engine #disabled.horizontal
  disabledV,     \* patch engine #disabled.vertical
  disabled,      \* wrap engine #disabled
  bound,         \* the input listeners are registered on the canvas
  observing,     \* the resize observer observes the canvas
  canvasSized,   \* canvas.width / canvas.height were assigned
  scaled,        \* context.scale was called
  clearCalls,    \* clearRect calls made by the last handler
  drawCalls,     \* drawImage calls made by the last handler
  readyCalls,    \* onReady invocations so far
  errorCalls,    \* onError invocations so far
  errorArg,      \* the argument of the last onError call
  loads,         \* wrap engine: the state of each source's image load
  effects,       \* what the last handler did, in order
  lastOp,        \* the handler that ran last
  lastDelta,     \* the deltas the last handler panned by, <<0, 0>> if none
  touchedX,      \* the last handler assigned a new value to some tile's x
  touchedY,      \* the last handler assigned a new value to some tile's y
  offX,          \* sum of the horizontal deltas applied to the tiles
  offY,          \* sum of the vertical deltas applied to the tiles
  pans           \* calls of #updateGridPosition / #move that moved the tiles

vars == <<engine, options, phase, canvasWidth, canvasHeight, gridItems, images,
          moveable, disabledH, disabledV, disabled, bound, observing,
          canvasSized, scaled, clearCalls, drawCalls, readyCalls, errorCalls,
          errorArg, loads, effects, lastOp, lastDelta, touchedX, touchedY,
          offX, offY, pans>>

(***************************************************************************)
(* Bounds of the model.                                                    *)
(***************************************************************************)
MaxCanvas == 3
MaxItem == 2
MaxGap == 1
MaxSources == 2
MaxRedundancy == 2
MaxDelta == 2
MaxPans == 2
MaxMove == 1
MaxDrags == 2

Deltas == (0 - MaxDelta)..MaxDelta
Movements == (0 - MaxMove)..MaxMove

(***************************************************************************)
(* JavaScript values of the configuration: a tag and an integer payload    *)
(* (the number, the array length, the count of own enumerable keys).       *)
(***************************************************************************)
Num(n) == [t |-> "number", v |-> n]
Undefined == [t |-> "undefined", v |-> 0]
Arr(n) == [t |-> "array", v |-> n]
Fn == [t |-> "function", v |-> 0]
Obj(n) == [t |-> "object", v |-> n]

\* a ?? b of JavaScript
Coalesce(a, b) == IF a.t = "undefined" THEN b ELSE a.v

\* Math.ceil(a / b) and Math.floor(a / b) for a >= 0, b > 0
Ceil(a, b) == (a + b - 1) \div b

(***************************************************************************)
(* lodash-es chunk and flatten, as the patch engine uses them.             *)
(***************************************************************************)
RECURSIVE flatten(_)
flatten(rows) ==
  IF Len(rows) = 0 THEN <<>> ELSE Head(rows) \o flatten(Tail(rows))

chunk(list, size) ==
  IF size < 1 \/ Len(list) = 0 THEN <<>>
  ELSE [r \in 1..Ceil(Len(list), size) |->
          SubSeq(list, (r - 1) * size + 1,
                 IF r * size < Len(list) THEN r * size ELSE Len(list))]

(***************************************************************************)
(* Patch engine: geometry getters (masonry.ts 67-97).                      *)
(***************************************************************************)
styleWidth == options.width.v
styleHeight == options.height.v
gap == Coalesce(options.gap, 0)
blockWidth == styleWidth + gap
blockHeight == styleHeight + gap
columnCapacity == Ceil(canvasWidth, blockWidth)
rowCapacity == Ceil(canvasHeight, blockHeight)

isOutOfBounds(x, y) ==
  LET overflowX == x < 0 - styleWidth \/ x > canvasWidth
      overflowY == y < 0 - styleHeight \/ y > canvasHeight
  IN  overflowX \/ overflowY

\* a slip in #calculateItemPositions: the row of a cell is its index divided
\* by the row capacity instead of the column capacity
calculateItemPositionsSlip(n, columns, rows) ==
  LET count == columns * rows
  IN  [i \in 1..count |->
         LET index == i - 1
             column == index % columns
             row == index \div rows
         IN  [source |-> (index % n) + 1,
              x |-> column * blockWidth,
              y |-> row * blockHeight]]

\* the tile list of #calculateItemPositions for n sources (numbered 1..n),
\* given the column and row capacity the getters return
calculateItemPositions(n, columns, rows) ==
  LET count == columns * rows
  IN  [i \in 1..count |->
         LET index == i - 1
             column == index % columns
             row == index \div columns
         IN  [source |-> (index % n) + 1,
              x |-> column * blockWidth,
              y |-> row * blockHeight]]

\* line 135: the tile list cut into rows of columnCapacity tiles
initializeGrid(n, columns, rows) ==
  chunk(calculateItemPositions(n, columns, rows), columns)

(***************************************************************************)
(* Patch engine: one pan (masonry.ts 234-313).                             *)
(***************************************************************************)
\* a slip in the translation loop: the horizontal lock is not consulted
translateSlip(item, x, y) ==
  [source |-> item.source,
   x |-> item.x + x,
   y |-> IF disabledV THEN item.y ELSE item.y + y]

\* lines 239-242: every tile is translated along the unlocked axes
translate(item, x, y) ==
  [source |-> item.source,
   x |-> IF disabledH THEN item.x ELSE item.x + x,
   y |-> IF disabledV THEN item.y ELSE item.y + y]

translateGrid(rows, x, y) ==
  [r \in 1..Len(rows) |->
     [c \in 1..Len(rows[r]) |-> translate(rows[r][c], x, y)]]

\* a slip in #appendHorizontalItems: the prepended tile takes the source of the
\* last tile that stays in the row, the appended tile that of the first
appendHorizontalItemsSlip(row, x) ==
  IF Len(row) = 0 THEN row
  ELSE
    LET kept == SelectSeq(row, LAMBDA e : ~isOutOfBounds(e.x, e.y))
        leftmost == row[1]
        rightmost == row[Len(row)]
        first == IF Len(kept) > 0 THEN kept[1] ELSE leftmost
        last == IF Len(kept) > 0 THEN kept[Len(kept)] ELSE rightmost
        before == IF x > 0 /\ leftmost.x > gap
                  THEN << [source |-> last.source,
                           x |-> leftmost.x - blockWidth,
                           y |-> leftmost.y] >>
                  ELSE <<>>
        after == IF x < 0 /\ rightmost.x < canvasWidth - blockWidth
                 THEN << [source |-> first.source,
                          x |-> rightmost.x + blockWidth,
                          y |-> rightmost.y] >>
                 ELSE <<>>
    IN  before \o kept \o after

\* lines 260-287: the row after the pan, from the translated row
appendHorizontalItems(row, x) ==
  IF Len(row) = 0 THEN row
  ELSE
    LET leftmost == row[1]
        rightmost == row[Len(row)]
        before == IF x > 0 /\ leftmost.x > gap
                  THEN << [source |-> rightmost.source,
                           x |-> leftmost.x - blockWidth,
                           y |-> leftmost.y] >>
                  ELSE <<>>
        kept == SelectSeq(row, LAMBDA e : ~isOutOfBounds(e.x, e.y))
        after == IF x < 0 /\ rightmost.x < canvasWidth - blockWidth
                 THEN << [source |-> leftmost.source,
                          x |-> rightmost.x + blockWidth,
                          y |-> rightmost.y] >>
                 ELSE <<>>
    IN  before \o kept \o after

columnPatch(row, newY) ==
  [c \in 1..Len(row) |->
     [source |-> row[c].source, x |-> row[c].x, y |-> newY]]

\* a slip in #appendVerticalItems: each patch is cloned from the row next to
\* it (the top patch from the first row, the bottom patch from the last)
appendVerticalItemsSlip(rows, y) ==
  IF Len(rows) = 0 THEN rows
  ELSE
    LET firstRow == rows[1]
        firstRowY == firstRow[1].y
        lastRow == rows[Len(rows)]
        lastRowY == lastRow[1].y
        top == IF y > 0 /\ firstRowY > gap
               THEN << columnPatch(firstRow, firstRowY - blockHeight) >>
               ELSE <<>>
        bottom == IF y < 0 /\ lastRowY < canvasHeight - blockHeight
                  THEN << columnPatch(lastRow, lastRowY + blockHeight) >>
                  ELSE <<>>
    IN  top \o rows \o bottom

\* lines 289-305: the rows after the vertical patch, from the surviving rows
appendVerticalItems(rows, y) ==
  IF Len(rows) = 0 THEN rows
  ELSE
    LET firstRow == rows[1]
        firstRowY == firstRow[1].y
        lastRow == rows[Len(rows)]
        lastRowY == lastRow[1].y
        top == IF y > 0 /\ firstRowY > gap
               THEN << columnPatch(lastRow, firstRowY - blockHeight) >>
               ELSE <<>>
        bottom == IF y < 0 /\ lastRowY < canvasHeight - blockHeight
                  THEN << columnPatch(firstRow, lastRowY + blockHeight) >>
                  ELSE <<>>
    IN  top \o rows \o bottom

\* lines 243-256: the grid a pan leaves, from the translated grid
stitch(moved, x, y) ==
  LET rows == [r \in 1..Len(moved) |-> appendHorizontalItems(moved[r], x)]
      afterImages == SelectSeq(rows, LAMBDA row : Len(row) > 0)
  IN  IF y # 0 THEN appendVerticalItems(afterImages, y) ELSE afterImages

\* #render: one drawImage per tile
renderCalls(rows) == Len(flatten(rows))

\* a slip in the guard of line 235: the second test is negated
bothLockedSlip == disabledH /\ ~disabledV

\* line 235: both axes are locked
bothLocked == disabledH /\ disabledV

updateGridPosition(x, y) ==
  IF bothLocked
  THEN /\ clearCalls' = 0
       /\ drawCalls' = 0
       /\ effects' = <<>>
       /\ lastDelta' = <<0, 0>>
       /\ touchedX' = FALSE
       /\ touchedY' = FALSE
       /\ UNCHANGED <<gridItems, offX, offY, pans>>
  ELSE
    LET moved == translateGrid(gridItems, x, y)
        tiles == flatten(gridItems)
        after == flatten(moved)
    IN  /\ gridItems' = stitch(moved, x, y)
        /\ clearCalls' = 1
        /\ drawCalls' = renderCalls(gridItems')
        /\ effects' = <<"clear", "render">>
        /\ lastDelta' = <<x, y>>
        /\ touchedX' = (\E i \in 1..Len(tiles) : after[i].x # tiles[i].x)
        /\ touchedY' = (\E i \in 1..Len(tiles) : after[i].y # tiles[i].y)
        /\ offX' = offX + (IF disabledH THEN 0 ELSE x)
        /\ offY' = offY + (IF disabledV THEN 0 ELSE y)
        /\ pans' = pans + 1

(***************************************************************************)
(* The patch engine right after a successful construction                  *)
(* (#initConfig, #setupCanvas, #initializeGrid).                           *)
(***************************************************************************)
PatchOptions ==
  [canvas : {Obj(1)}, ctx2d : {TRUE}, canvasApi : {TRUE},
   clientWidth : 2..MaxCanvas, clientHeight : 2..MaxCanvas,
   items : {Arr(n) : n \in 1..MaxSources},
   width : {Num(n) : n \in 1..MaxItem},
   height : {Num(n) : n \in 1..MaxItem},
   gap : {Num(n) : n \in 0..MaxGap} \cup {Undefined},
   radius : {Undefined},
   redundancy : {Undefined},
   onReady : {Fn}, onError : {Fn}]

InitPatch ==
  /\ engine = "patch"
  /\ options \in PatchOptions
  /\ phase = "ready"
  /\ canvasWidth = options.clientWidth
  /\ canvasHeight = options.clientHeight
  /\ gridItems = initializeGrid(options.items.v, columnCapacity, rowCapacity)
  /\ images = <<>>
  /\ moveable = FALSE
  /\ disabledH = FALSE
  /\ disabledV = FALSE
  /\ disabled = FALSE
  /\ bound = TRUE
  /\ observing = TRUE
  /\ canvasSized = TRUE
  /\ scaled = TRUE
  /\ clearCalls = 0
  /\ drawCalls = renderCalls(gridItems)
  /\ readyCalls = 1
  /\ errorCalls = 0
  /\ errorArg = <<>>
  /\ loads = <<>>
  /\ effects = <<"render", "bindEvent", "onReady">>
  /\ lastOp = "construct"
  /\ lastDelta = <<0, 0>>
  /\ touchedX = FALSE
  /\ touchedY = FALSE
  /\ offX = 0
  /\ offY = 0
  /\ pans = 0

\* one call of #updateGridPosition with both axes unlocked
Pan ==
  /\ engine = "patch" /\ phase = "ready"
  /\ pans < MaxPans
  /\ \E x \in Deltas, y \in Deltas : updateGridPosition(x, y)
  /\ lastOp' = "pan"
  /\ UNCHANGED <<engine, options, phase, canvasWidth, canvasHeight, images,
                 moveable, disabledH, disabledV, disabled, bound, observing,
                 canvasSized, scaled, readyCalls, errorCalls, errorArg, loads>>

NextPan == Pan

SpecPan == InitPatch /\ [][NextPan]_vars

(***************************************************************************)
(* Wrap engine: geometry getters (masonry.ts 421-445, 471-474).            *)
(***************************************************************************)
DefaultGap == 20
DefaultRedundancy == 1

itemWidth == options.width.v
itemHeight == options.height.v
wrapGap == Coalesce(options.gap, DefaultGap)
redundancy == Coalesce(options.redundancy, DefaultRedundancy)
wrapBlockWidth == itemWidth + wrapGap
wrapBlockHeight == itemHeight + wrapGap
capacityX == Ceil(canvasWidth, itemWidth + wrapGap)
capacityY == Ceil(canvasHeight, itemHeight + wrapGap)
rangeWidth == canvasWidth + redundancy * 2 * (itemWidth + wrapGap)
rangeHeight == canvasHeight + redundancy * 2 * (itemHeight + wrapGap)

\* the tile pool of #setImagesPosition; images are 1..n
setImagesPosition(n) ==
  LET rowCount == capacityY + 2 * redundancy
      columnCount == capacityX + 2 * redundancy
      offsetX == redundancy * wrapBlockWidth
      offsetY == redundancy * wrapBlockHeight
  IN  [k \in 1..(rowCount * columnCount) |->
         LET i == k - 1
             column == i % columnCount
             row == i \div columnCount
         IN  [image |-> (i % n) + 1,
              x |-> column * wrapBlockWidth - offsetX,
              y |-> row * wrapBlockHeight - offsetY]]

\* lines 612-618 and 619-625: add the delta, then wrap once at each end
wrapAxis(pos, delta, range, size) ==
  LET added == pos + delta
      high == IF added > range - size THEN added - (range + wrapGap)
              ELSE added
  IN  IF high < 0 - size THEN high + (range + wrapGap) ELSE high

\* a slip in #move: the tile is redrawn from the first image of the pool
moveImageSlip(info, x, y) ==
  [image |-> 1,
   x |-> wrapAxis(info.x, x, rangeWidth, itemWidth),
   y |-> wrapAxis(info.y, y, rangeHeight, itemHeight)]

\* lines 611-625: one tile of the pool, moved
moveImage(info, x, y) ==
  [image |-> info.image,
   x |-> wrapAxis(info.x, x, rangeWidth, itemWidth),
   y |-> wrapAxis(info.y, y, rangeHeight, itemHeight)]

move(x, y) ==
  /\ images' = [i \in 1..Len(images) |-> moveImage(images[i], x, y)]
  /\ clearCalls' = 1
  /\ drawCalls' = Len(images)
  /\ effects' = <<"clear", "render">>
  /\ lastDelta' = <<x, y>>
  /\ touchedX' = (\E i \in 1..Len(images) : images'[i].x # images[i].x)
  /\ touchedY' = (\E i \in 1..Len(images) : images'[i].y # images[i].y)
  /\ offX' = offX + x
  /\ offY' = offY + y
  /\ pans' = pans + 1

(***************************************************************************)
(* The wrap engine once #draw has loaded the images, rendered the pool,    *)
(* bound the listeners and called onReady (masonry.ts 496-505).            *)
(***************************************************************************)
WrapOptions ==
  [canvas : {Obj(1)}, ctx2d : {TRUE}, canvasApi : {TRUE},
   clientWidth : 2..MaxCanvas, clientHeight : 2..MaxCanvas,
   items : {Arr(n) : n \in 1..MaxSources},
   width : {Num(n) : n \in 1..MaxItem},
   height : {Num(n) : n \in 1..MaxItem},
   gap : {Num(n) : n \in 0..MaxGap} \cup {Undefined},
   radius : {Undefined},
   redundancy : {Num(n) : n \in 1..MaxRedundancy} \cup {Undefined},
   onReady : {Fn}, onError : {Fn}]

InitWrap ==
  /\ engine = "wrap"
  /\ options \in WrapOptions
  /\ phase = "ready"
  /\ canvasWidth = options.clientWidth
  /\ canvasHeight = options.clientHeight
  /\ gridItems = <<>>
  /\ images = setImagesPosition(options.items.v)
  /\ moveable = FALSE
  /\ disabledH = FALSE
  /\ disabledV = FALSE
  /\ disabled = FALSE
  /\ bound = TRUE
  /\ observing = TRUE
  /\ canvasSized = TRUE
  /\ scaled = FALSE
  /\ clearCalls = 0
  /\ drawCalls = Len(images)
  /\ readyCalls = 1
  /\ errorCalls = 0
  /\ errorArg = <<>>
  /\ loads = [i \in 1..options.items.v |-> "loaded"]
  /\ effects = <<"render", "bindEvent", "onReady">>
  /\ lastOp = "construct"
  /\ lastDelta = <<0, 0>>
  /\ touchedX = FALSE
  /\ touchedY = FALSE
  /\ offX = 0
  /\ offY = 0
  /\ pans = 0

\* one call of #move
Move ==
  /\ engine = "wrap" /\ phase = "ready"
  /\ pans < MaxPans
  /\ \E x \in Deltas, y \in Deltas : move(x, y)
  /\ lastOp' = "move"
  /\ UNCHANGED <<engine, options, phase, canvasWidth, canvasHeight, gridItems,
                 moveable, disabledH, disabledV, disabled, bound, observing,
                 canvasSized, scaled, readyCalls, errorCalls, errorArg, loads>>

NextWrap == Move

SpecWrap == InitWrap /\ [][NextWrap]_vars

(***************************************************************************)
(* Patch engine: input handlers and lock toggles (masonry.ts 141-149,      *)
(* 180-204).                                                               *)
(***************************************************************************)
\* the instance was constructed; destroy() leaves every field but the
\* listeners as it is
Built == phase \in {"ready", "destroyed"}

\* #scrollable is initialised to true and never assigned again (line 36)
scrollable == TRUE

\* a handler that neither clears, draws nor moves a tile
Idle ==
  /\ clearCalls' = 0
  /\ drawCalls' = 0
  /\ effects' = <<>>
  /\ lastDelta' = <<0, 0>>
  /\ touchedX' = FALSE
  /\ touchedY' = FALSE
  /\ UNCHANGED <<gridItems, images, offX, offY, pans>>

PatchFrame ==
  UNCHANGED <<engine, options, phase, canvasWidth, canvasHeight, images, bound,
              observing, canvasSized, scaled, readyCalls, errorCalls, errorArg,
              loads, disabled>>

mousedown ==
  /\ engine = "patch" /\ Built /\ bound
  /\ moveable' = TRUE
  /\ Idle
  /\ lastOp' = "mousedown"
  /\ PatchFrame /\ UNCHANGED <<disabledH, disabledV>>

mouseup ==
  /\ engine = "patch" /\ Built /\ bound
  /\ moveable' = FALSE
  /\ Idle
  /\ lastOp' = "mouseup"
  /\ PatchFrame /\ UNCHANGED <<disabledH, disabledV>>

\* a slip in #mouseleave: the drag state is left as it is
mouseleaveSlip ==
  /\ engine = "patch" /\ Built /\ bound
  /\ moveable' = moveable
  /\ Idle
  /\ lastOp' = "mouseleave"
  /\ PatchFrame /\ UNCHANGED <<disabledH, disabledV>>

mouseleave ==
  /\ engine = "patch" /\ Built /\ bound
  /\ moveable' = FALSE
  /\ Idle
  /\ lastOp' = "mouseleave"
  /\ PatchFrame /\ UNCHANGED <<disabledH, disabledV>>

\* the handler reaches the translation loop of #updateGridPosition
Pans(viaWheel) ==
  IF viaWheel THEN ~disabledV /\ scrollable
  ELSE moveable /\ ~bothLocked

mousemove ==
  /\ engine = "patch" /\ Built /\ bound
  /\ Pans(FALSE) => pans < MaxDrags
  /\ \E movementX \in Movements, movementY \in Movements :
       IF moveable THEN updateGridPosition(movementX, movementY)
       ELSE Idle
  /\ lastOp' = "mousemove"
  /\ PatchFrame /\ UNCHANGED <<moveable, disabledH, disabledV>>

wheel ==
  /\ engine = "patch" /\ Built /\ bound
  /\ Pans(TRUE) => pans < MaxDrags
  /\ \E deltaY \in Movements :
       IF disabledV \/ ~scrollable THEN Idle
       ELSE updateGridPosition(0, 0 - deltaY)
  /\ lastOp' = "wheel"
  /\ PatchFrame /\ UNCHANGED <<moveable, disabledH, disabledV>>

\* enable(horizontal, vertical), lines 141-144
enableWith(horizontal, vertical) ==
  /\ engine = "patch" /\ Built
  /\ disabledH' = horizontal
  /\ disabledV' = vertical
  /\ Idle
  /\ lastOp' = "enable"
  /\ PatchFrame /\ UNCHANGED moveable

\* a call of enable; enable() is enable(false, false) by the parameter
\* defaults of line 141
enable ==
  \E horizontal \in BOOLEAN, vertical \in BOOLEAN :
    enableWith(horizontal, vertical)

\* disable(horizontal, vertical), lines 146-149
disableWith(horizontal, vertical) ==
  /\ engine = "patch" /\ Built
  /\ disabledH' = horizontal
  /\ disabledV' = vertical
  /\ Idle
  /\ lastOp' = "disable"
  /\ PatchFrame /\ UNCHANGED moveable

\* a call of disable; disable() is disable(true, true) by the parameter
\* defaults of line 146
disable ==
  \E horizontal \in BOOLEAN, vertical \in BOOLEAN :
    disableWith(horizontal, vertical)

(***************************************************************************)
(* Wrap engine: input handlers and lock toggles (masonry.ts 507-513,       *)
(* 568-584).                                                               *)
(***************************************************************************)
WrapFrame ==
  UNCHANGED <<engine, options, phase, canvasWidth, canvasHeight, gridItems,
              bound, observing, canvasSized, scaled, readyCalls, errorCalls,
              errorArg, loads, disabledH, disabledV>>

wrapMousedown ==
  /\ engine = "wrap" /\ Built /\ bound
  /\ moveable' = TRUE
  /\ Idle
  /\ lastOp' = "mousedown"
  /\ WrapFrame /\ UNCHANGED disabled

wrapMouseup ==
  /\ engine = "wrap" /\ Built /\ bound
  /\ moveable' = FALSE
  /\ Idle
  /\ lastOp' = "mouseup"
  /\ WrapFrame /\ UNCHANGED disabled

wrapMouseleave ==
  /\ engine = "wrap" /\ Built /\ bound
  /\ moveable' = FALSE
  /\ Idle
  /\ lastOp' = "mouseleave"
  /\ WrapFrame /\ UNCHANGED disabled

wrapMousemove ==
  /\ engine = "wrap" /\ Built /\ bound
  /\ (moveable /\ ~disabled) => pans < MaxDrags
  /\ \E movementX \in Movements, movementY \in Movements :
       IF moveable /\ ~disabled THEN move(movementX, movementY)
       ELSE Idle
  /\ lastOp' = "mousemove"
  /\ WrapFrame /\ UNCHANGED <<moveable, disabled>>

wrapEnable ==
  /\ engine = "wrap" /\ Built
  /\ disabled' = FALSE
  /\ Idle
  /\ lastOp' = "enable"
  /\ WrapFrame /\ UNCHANGED moveable

wrapDisable ==
  /\ engine = "wrap" /\ Built
  /\ disabled' = TRUE
  /\ Idle
  /\ lastOp' = "disable"
  /\ WrapFrame /\ UNCHANGED moveable

(***************************************************************************)
(* Both engines under their input events.                                  *)
(***************************************************************************)
EventGeometry(o) ==
  /\ o.clientWidth = MaxCanvas
  /\ o.width.v = o.height.v
  /\ o.items.v = MaxSources
  /\ o.gap.t = "number"
  /\ o.redundancy.t = "undefined"

Init ==
  /\ InitPatch \/ InitWrap
  /\ EventGeometry(options)

Next ==
  \/ mousedown
  \/ mouseup
  \/ mouseleave
  \/ mousemove
  \/ wheel
  \/ enable
  \/ disable
  \/ wrapMousedown
  \/ wrapMouseup
  \/ wrapMouseleave
  \/ wrapMousemove
  \/ wrapEnable
  \/ wrapDisable

Spec == Init /\ [][Next]_vars

(***************************************************************************)
(* resize() of both engines (masonry.ts 315-323 and 636-645), called by the *)
(* resize observer or by the application; the canvas's client size at the  *)
(* time of the call is the input.                                          *)
(***************************************************************************)
ClientSizes == (MaxCanvas - 1)..MaxCanvas

\* lines 119-132: the canvas is sized to its client box and the context is
\* scaled by the device pixel ratio
setupCanvas(clientWidth, clientHeight) ==
  /\ canvasWidth' = clientWidth
  /\ canvasHeight' = clientHeight
  /\ canvasSized' = TRUE
  /\ scaled' = TRUE

\* resize() of the patch engine: the tiles are kept and cut into rows of the
\* new column capacity
resize ==
  /\ engine = "patch" /\ Built
  /\ \E clientWidth \in ClientSizes, clientHeight \in ClientSizes :
       /\ setupCanvas(clientWidth, clientHeight)
       /\ IF Len(gridItems) > 0
          THEN /\ gridItems' = chunk(flatten(gridItems),
                                     Ceil(clientWidth, blockWidth))
               /\ clearCalls' = 1
               /\ drawCalls' = renderCalls(gridItems')
               /\ effects' = <<"setupCanvas", "clear", "render">>
          ELSE /\ gridItems' = gridItems
               /\ clearCalls' = 0
               /\ drawCalls' = 0
               /\ effects' = <<"setupCanvas">>
  /\ lastOp' = "resize"
  /\ lastDelta' = <<0, 0>>
  /\ touchedX' = FALSE
  /\ touchedY' = FALSE
  /\ UNCHANGED <<engine, options, phase, images, moveable, disabledH,
                 disabledV, disabled, bound, observing, readyCalls,
                 errorCalls, errorArg, loads, offX, offY, pans>>

\* resize() of the wrap engine: the pool is redrawn as it is
wrapResize ==
  /\ engine = "wrap" /\ Built
  /\ \E clientWidth \in ClientSizes, clientHeight \in ClientSizes :
       /\ canvasWidth' = clientWidth
       /\ canvasHeight' = clientHeight
       /\ canvasSized' = TRUE
  /\ IF Len(images) > 0
     THEN /\ clearCalls' = 1
          /\ drawCalls' = Len(images)
          /\ effects' = <<"clear", "render">>
     ELSE /\ clearCalls' = 0
          /\ drawCalls' = 0
          /\ effects' = <<>>
  /\ lastOp' = "resize"
  /\ lastDelta' = <<0, 0>>
  /\ touchedX' = FALSE
  /\ touchedY' = FALSE
  /\ UNCHANGED <<engine, options, phase, gridItems, images, moveable,
                 disabledH, disabledV, disabled, bound, observing, scaled,
                 readyCalls, errorCalls, errorArg, loads, offX, offY, pans>>

\* the configurations of the resize specification: the largest canvas, so
\* that a resize can shrink it on either axis
ResizeGeometry(o) ==
  /\ o.clientWidth = MaxCanvas /\ o.clientHeight = MaxCanvas
  /\ o.width.v = o.height.v
  /\ o.items.v = MaxSources
  /\ o.gap.t = "number"
  /\ o.redundancy.t = "undefined"

InitResize ==
  /\ InitPatch \/ InitWrap
  /\ ResizeGeometry(options)

NextResize ==
  \/ Pan
  \/ Move
  \/ resize
  \/ wrapResize

SpecResize == InitResize /\ [][NextResize]_vars

(***************************************************************************)
(* Teardown (masonry.ts 155-158, 206-232, 519-522, 586-607) and the resize *)
(* observer's callback (lines 54 and 410).                                 *)
(***************************************************************************)
\* the function objects `this.events` holds at a call site of the patch
\* engine: `events` is a getter that binds the five handlers anew on every
\* access (lines 206-214)
events(site) == <<"bound at", site>>

\* the function objects `this.events` holds at a call site of the wrap
\* engine: `events` is a field, bound once at construction (lines 586-591)
wrapEvents(site) == <<"bound at", "construction">>

\* removeEventListener removes a listener only when it is given the function
\* object that was registered
removeEventListener(registered, given) == registered = given

\* destroy() of the patch engine: #unbindEvent, then clear()
destroy ==
  /\ engine = "patch" /\ Built
  /\ bound' = (bound /\ ~removeEventListener(events("bindEvent"),
                                             events("unbindEvent")))
  /\ observing' = FALSE
  /\ phase' = "destroyed"
  /\ clearCalls' = 1
  /\ drawCalls' = 0
  /\ effects' = <<"unbindEvent", "clear">>
  /\ lastOp' = "destroy"
  /\ lastDelta' = <<0, 0>>
  /\ touchedX' = FALSE
  /\ touchedY' = FALSE
  /\ UNCHANGED <<engine, options, canvasWidth, canvasHeight, gridItems, images,
                 moveable, disabledH, disabledV, disabled, canvasSized, scaled,
                 readyCalls, errorCalls, errorArg, loads, offX, offY, pans>>

\* the wrap engine's #draw is waiting for the image loads (line 498)
Loading == phase \in {"loading", "loadingDestroyed"}

\* destroy() of the wrap engine; the loads it may run ahead of are not
\* cancelled, and #draw has no test for a destroyed instance
wrapDestroy ==
  /\ engine = "wrap" /\ (Built \/ Loading)
  /\ bound' = (bound /\ ~removeEventListener(wrapEvents("bindEvent"),
                                             wrapEvents("unbindEvent")))
  /\ observing' = FALSE
  /\ phase' = IF Loading THEN "loadingDestroyed" ELSE "destroyed"
  /\ clearCalls' = 1
  /\ drawCalls' = 0
  /\ effects' = <<"unbindEvent", "clear">>
  /\ lastOp' = "destroy"
  /\ lastDelta' = <<0, 0>>
  /\ touchedX' = FALSE
  /\ touchedY' = FALSE
  /\ UNCHANGED <<engine, options, canvasWidth, canvasHeight, gridItems, images,
                 moveable, disabledH, disabledV, disabled, canvasSized, scaled,
                 readyCalls, errorCalls, errorArg, loads, offX, offY, pans>>

\* the resize observer reports a new size of the canvas
resizeObserved == observing /\ resize

wrapResizeObserved == observing /\ wrapResize

\* the input events, the resize observer and destroy(), with the axes unlocked
NextLife ==
  \/ mousedown
  \/ mouseup
  \/ mouseleave
  \/ mousemove
  \/ wheel
  \/ resizeObserved
  \/ destroy
  \/ wrapMousedown
  \/ wrapMouseup
  \/ wrapMouseleave
  \/ wrapMousemove
  \/ wrapResizeObserved
  \/ wrapDestroy

SpecLife == Init /\ [][NextLife]_vars

(***************************************************************************)
(* A drawImage call that throws during a redraw (masonry.ts 250-257,       *)
(* 315-323, 344-359, 609-634, 636-654): the exception is that of the first *)
(* tile drawn from source s.                                               *)
(***************************************************************************)
\* the index of the first tile of the list drawn from source s, 0 if none
firstDrawOf(list, s) ==
  LET hits == {i \in 1..Len(list) : list[i].source = s}
  IN  IF hits = {} THEN 0 ELSE CHOOSE i \in hits : \A j \in hits : i <= j

\* the index of the first tile of the pool drawn from image s, 0 if none
wrapFirstDrawOf(pool, s) ==
  LET hits == {i \in 1..Len(pool) : pool[i].image = s}
  IN  IF hits = {} THEN 0 ELSE CHOOSE i \in hits : \A j \in hits : i <= j

\* #updateGridPosition when #render throws at the first tile of source s:
\* the grid was already translated, stitched and assigned (line 256)
updateGridPositionThrows(x, y, s) ==
  LET moved == translateGrid(gridItems, x, y)
      tiles == flatten(gridItems)
      after == flatten(moved)
      next == stitch(moved, x, y)
      k == firstDrawOf(flatten(next), s)
  IN  /\ ~bothLocked
      /\ k > 0
      /\ gridItems' = next
      /\ clearCalls' = 1
      /\ drawCalls' = k - 1
      /\ effects' = <<"clear", "drawFailed", "throw">>
      /\ lastDelta' = <<x, y>>
      /\ touchedX' = (\E i \in 1..Len(tiles) : after[i].x # tiles[i].x)
      /\ touchedY' = (\E i \in 1..Len(tiles) : after[i].y # tiles[i].y)
      /\ offX' = offX + (IF disabledH THEN 0 ELSE x)
      /\ offY' = offY + (IF disabledV THEN 0 ELSE y)
      /\ pans' = pans + 1

\* #move when drawImage throws at the first tile of image s: the loop of
\* lines 611-633 has moved the tiles up to that one and no other
moveThrows(x, y, s) ==
  LET k == wrapFirstDrawOf(images, s)
  IN  /\ k > 0
      /\ images' = [i \in 1..Len(images) |->
                      IF i <= k THEN moveImage(images[i], x, y) ELSE images[i]]
      /\ clearCalls' = 1
      /\ drawCalls' = k - 1
      /\ effects' = <<"clear", "drawFailed", "throw">>
      /\ lastDelta' = <<x, y>>
      /\ touchedX' = (\E i \in 1..Len(images) : images'[i].x # images[i].x)
      /\ touchedY' = (\E i \in 1..Len(images) : images'[i].y # images[i].y)
      /\ offX' = offX + x
      /\ offY' = offY + y
      /\ pans' = pans + 1

mousemoveDrawFails ==
  /\ engine = "patch" /\ Built /\ bound
  /\ moveable
  /\ pans < MaxDrags
  /\ \E movementX \in Movements, movementY \in Movements,
        s \in 1..options.items.v :
       updateGridPositionThrows(movementX, movementY, s)
  /\ lastOp' = "mousemove"
  /\ PatchFrame /\ UNCHANGED <<moveable, disabledH, disabledV>>

wheelDrawFails ==
  /\ engine = "patch" /\ Built /\ bound
  /\ ~disabledV /\ scrollable
  /\ pans < MaxDrags
  /\ \E deltaY \in Movements, s \in 1..options.items.v :
       updateGridPositionThrows(0, 0 - deltaY, s)
  /\ lastOp' = "wheel"
  /\ PatchFrame /\ UNCHANGED <<moveable, disabledH, disabledV>>

\* resize() of the patch engine when #render throws at the first tile of
\* source s
resizeDrawFails ==
  /\ engine = "patch" /\ Built /\ observing
  /\ Len(gridItems) > 0
  /\ \E clientWidth \in ClientSizes, clientHeight \in ClientSizes,
        s \in 1..options.items.v :
       LET next == chunk(flatten(gridItems), Ceil(clientWidth, blockWidth))
           k == firstDrawOf(flatten(next), s)
       IN  /\ k > 0
           /\ setupCanvas(clientWidth, clientHeight)
           /\ gridItems' = next
           /\ drawCalls' = k - 1
  /\ clearCalls' = 1
  /\ effects' = <<"setupCanvas", "clear", "drawFailed", "throw">>
  /\ lastOp' = "resize"
  /\ lastDelta' = <<0, 0>>
  /\ touchedX' = FALSE
  /\ touchedY' = FALSE
  /\ UNCHANGED <<engine, options, phase, images, moveable, disabledH,
                 disabledV, disabled, bound, observing, readyCalls,
                 errorCalls, errorArg, loads, offX, offY, pans>>

wrapMousemoveDrawFails ==
  /\ engine = "wrap" /\ Built /\ bound
  /\ moveable /\ ~disabled
  /\ pans < MaxDrags
  /\ \E movementX \in Movements, movementY \in Movements,
        s \in 1..options.items.v :
       moveThrows(movementX, movementY, s)
  /\ lastOp' = "mousemove"
  /\ WrapFrame /\ UNCHANGED <<moveable, disabled>>

\* resize() of the wrap engine when #render throws at the first tile of
\* image s
wrapResizeDrawFails ==
  /\ engine = "wrap" /\ Built /\ observing
  /\ \E clientWidth \in ClientSizes, clientHeight \in ClientSizes :
       /\ canvasWidth' = clientWidth
       /\ canvasHeight' = clientHeight
       /\ canvasSized' = TRUE
  /\ \E s \in 1..options.items.v :
       /\ wrapFirstDrawOf(images, s) > 0
       /\ drawCalls' = wrapFirstDrawOf(images, s) - 1
  /\ clearCalls' = 1
  /\ effects' = <<"clear", "drawFailed", "throw">>
  /\ lastOp' = "resize"
  /\ lastDelta' = <<0, 0>>
  /\ touchedX' = FALSE
  /\ touchedY' = FALSE
  /\ UNCHANGED <<engine, options, phase, gridItems, images, moveable,
                 disabledH, disabledV, disabled, bound, observing, scaled,
                 readyCalls, errorCalls, errorArg, loads, offX, offY, pans>>

\* drags and wheel turns, each with or without a drawImage call that
\* throws, and observed resizes whose redraw throws
NextDraw ==
  \/ mousedown
  \/ mouseup
  \/ mousemove
  \/ wheel
  \/ mousemoveDrawFails
  \/ wheelDrawFails
  \/ resizeDrawFails
  \/ wrapMousedown
  \/ wrapMouseup
  \/ wrapMousemove
  \/ wrapMousemoveDrawFails
  \/ wrapResizeDrawFails

InitDraw ==
  /\ InitPatch \/ InitWrap
  /\ ResizeGeometry(options)

SpecDraw == InitDraw /\ [][NextDraw]_vars

(***************************************************************************)
(* The patch engine between #initConfig and #initializeGrid, and the grid  *)
(* builder as one step (masonry.ts 134-139).                               *)
(***************************************************************************)
InitConfigured ==
  /\ engine = "patch"
  /\ options \in PatchOptions
  /\ phase = "configured"
  /\ canvasWidth = options.clientWidth
  /\ canvasHeight = options.clientHeight
  /\ gridItems = <<>>
  /\ images = <<>>
  /\ moveable = FALSE
  /\ disabledH = FALSE
  /\ disabledV = FALSE
  /\ disabled = FALSE
  /\ bound = FALSE
  /\ observing = FALSE
  /\ canvasSized = TRUE
  /\ scaled = TRUE
  /\ clearCalls = 0
  /\ drawCalls = 0
  /\ readyCalls = 0
  /\ errorCalls = 0
  /\ errorArg = <<>>
  /\ loads = <<>>
  /\ effects = <<>>
  /\ lastOp = "initConfig"
  /\ lastDelta = <<0, 0>>
  /\ touchedX = FALSE
  /\ touchedY = FALSE
  /\ offX = 0
  /\ offY = 0
  /\ pans = 0

InitializeGrid ==
  /\ engine = "patch" /\ phase = "configured"
  /\ gridItems' = initializeGrid(options.items.v, columnCapacity, rowCapacity)
  /\ drawCalls' = renderCalls(gridItems')
  /\ bound' = TRUE
  /\ observing' = TRUE
  /\ readyCalls' = readyCalls + 1
  /\ effects' = <<"render", "bindEvent", "onReady">>
  /\ phase' = "ready"
  /\ lastOp' = "construct"
  /\ UNCHANGED <<engine, options, canvasWidth, canvasHeight, images, moveable,
                 disabledH, disabledV, disabled, canvasSized, scaled,
                 clearCalls, errorCalls, errorArg, loads, lastDelta, touchedX,
                 touchedY, offX, offY, pans>>

NextGrid == InitializeGrid

SpecGrid == InitConfigured /\ [][NextGrid]_vars

(***************************************************************************)
(* Construction: the patch engine's #initConfig with the Validator and     *)
(* configRules (config-rules.ts, helper/validator), the wrap engine's      *)
(* #initConfig (masonry.ts 447-485).                                       *)
(***************************************************************************)
isNil(value) == value.t = "undefined"

\* isTargetType of utils/is.ts for the types configRules names
isTargetType(value, type) ==
  IF type = "array" THEN value.t = "array"
  ELSE IF type = "number" THEN value.t = "number"
  ELSE FALSE

\* lodash-es isEmpty: an array is empty when its length is 0, an object when
\* it has no own enumerable key; a number, a function, undefined are empty
isEmpty(value) ==
  IF value.t \in {"array", "object"} THEN value.v = 0 ELSE TRUE

isFunction(value) == value.t = "function"

\* one turn of the loop of Validator.validate: the rule adds its message
ruleFails(value, required, type, allowEmpty, validateOk) ==
  IF required /\ isNil(value) THEN TRUE
  ELSE IF type # "none" /\ ~isTargetType(value, type) THEN TRUE
  ELSE IF ~allowEmpty /\ isEmpty(value) THEN TRUE
  ELSE ~validateOk

\* configRules, each with the verdict of its validate callback
configRules(o) ==
  << [message |-> "invalid canvas element",
      fails |-> ruleFails(o.canvas, TRUE, "none", FALSE, o.ctx2d)],
     [message |-> "items must be an array",
      fails |-> ruleFails(o.items, TRUE, "array", FALSE, TRUE)],
     [message |-> "width must be > 0",
      fails |-> ruleFails(o.width, TRUE, "number", FALSE, o.width.v > 0)],
     [message |-> "height must be > 0",
      fails |-> ruleFails(o.height, TRUE, "number", FALSE, o.height.v > 0)],
     [message |-> "gap must be >= 0",
      fails |-> ruleFails(o.gap, FALSE, "number", TRUE, o.gap.v >= 0)],
     [message |-> "onReady must be a function",
      fails |-> ruleFails(o.onReady, FALSE, "none", TRUE, isFunction(o.onReady))],
     [message |-> "onError must be a function",
      fails |-> ruleFails(o.onError, FALSE, "none", TRUE, isFunction(o.onError))] >>

\* Validator.validate: the messages of the failing rules, in rule order
validate(o) ==
  LET failed == SelectSeq(configRules(o), LAMBDA rule : rule.fails)
  IN  [valid |-> Len(failed) = 0,
       errors |-> [i \in 1..Len(failed) |-> failed[i].message]]

\* the patch engine's #initConfig throws
initConfigThrows(o) == ~o.canvasApi \/ ~validate(o).valid

\* a slip in the wrap engine's #initConfig: the gap is not checked
wrapInitConfigThrowsSlip(o) ==
  \/ o.items.v <= 0
  \/ o.width.v <= 0
  \/ Coalesce(o.redundancy, 1) < 1
  \/ ~o.ctx2d
  \/ (o.onError.t # "undefined" /\ ~isFunction(o.onError))

\* the wrap engine's #initConfig throws (lines 448-468; line 454 tests the
\* item width a second time)
wrapInitConfigThrows(o) ==
  \/ o.items.v <= 0
  \/ o.width.v <= 0
  \/ o.width.v <= 0
  \/ Coalesce(o.gap, 0) < 0
  \/ Coalesce(o.redundancy, 1) < 1
  \/ ~o.ctx2d
  \/ (o.onError.t # "undefined" /\ ~isFunction(o.onError))

Callbacks == {Fn, Undefined, Obj(0)}

NewPatchOptions ==
  [canvas : {Obj(0), Obj(1)}, ctx2d : BOOLEAN, canvasApi : BOOLEAN,
   clientWidth : {MaxCanvas}, clientHeight : {MaxCanvas},
   items : {Arr(n) : n \in 0..1} \cup {Undefined},
   width : {Num(n) : n \in -1..1},
   height : {Num(n) : n \in -1..1},
   gap : {Num(n) : n \in -1..MaxGap} \cup {Undefined},
   radius : {Num(n) : n \in -1..0} \cup {Undefined},
   redundancy : {Undefined},
   onReady : {Fn, Undefined}, onError : Callbacks]

NewWrapOptions ==
  [canvas : {Obj(0)}, ctx2d : BOOLEAN, canvasApi : {TRUE},
   clientWidth : {MaxCanvas}, clientHeight : {MaxCanvas},
   items : {Arr(n) : n \in 0..1},
   width : {Num(n) : n \in -1..1},
   height : {Num(n) : n \in -1..1},
   gap : {Num(n) : n \in -1..MaxGap} \cup {Undefined},
   radius : {Num(n) : n \in -1..0} \cup {Undefined},
   redundancy : {Num(n) : n \in 0..MaxRedundancy} \cup {Undefined},
   onReady : {Fn, Undefined}, onError : Callbacks]

InitNew ==
  /\ engine \in {"patch", "wrap"}
  /\ options \in (IF engine = "patch" THEN NewPatchOptions ELSE NewWrapOptions)
  /\ phase = "new"
  /\ canvasWidth = 0
  /\ canvasHeight = 0
  /\ gridItems = <<>>
  /\ images = <<>>
  /\ moveable = FALSE
  /\ disabledH = FALSE
  /\ disabledV = FALSE
  /\ disabled = FALSE
  /\ bound = FALSE
  /\ observing = FALSE
  /\ canvasSized = FALSE
  /\ scaled = FALSE
  /\ clearCalls = 0
  /\ drawCalls = 0
  /\ readyCalls = 0
  /\ errorCalls = 0
  /\ errorArg = <<>>
  /\ loads = <<>>
  /\ effects = <<>>
  /\ lastOp = "new"
  /\ lastDelta = <<0, 0>>
  /\ touchedX = FALSE
  /\ touchedY = FALSE
  /\ offX = 0
  /\ offY = 0
  /\ pans = 0

\* the constructor threw: no field of the instance or the canvas was set
Threw ==
  /\ phase' = "threw"
  /\ effects' = <<"throw">>
  /\ UNCHANGED <<canvasWidth, canvasHeight, gridItems, bound, observing,
                 canvasSized, scaled, drawCalls, readyCalls>>

\* new Masonry(options) of the patch engine: #initConfig, #initializeGrid
ConstructPatch ==
  /\ engine = "patch" /\ phase = "new"
  /\ IF initConfigThrows(options) THEN Threw
     ELSE /\ canvasSized' = TRUE
          /\ scaled' = TRUE
          /\ canvasWidth' = options.clientWidth
          /\ canvasHeight' = options.clientHeight
          /\ gridItems' = initializeGrid(options.items.v,
                                         Ceil(canvasWidth', blockWidth),
                                         Ceil(canvasHeight', blockHeight))
          /\ drawCalls' = renderCalls(gridItems')
          /\ bound' = TRUE
          /\ observing' = TRUE
          /\ readyCalls' = IF isFunction(options.onReady) THEN 1 ELSE 0
          /\ effects' = <<"render", "bindEvent">>
                         \o (IF isFunction(options.onReady)
                             THEN <<"onReady">> ELSE <<>>)
          /\ phase' = "ready"
  /\ lastOp' = "construct"
  /\ UNCHANGED <<engine, options, images, moveable, disabledH, disabledV,
                 disabled, clearCalls, errorCalls, errorArg, loads, lastDelta,
                 touchedX, touchedY, offX, offY, pans>>

\* new Masonry(options) of the wrap engine, up to the first await of #draw
ConstructWrap ==
  /\ engine = "wrap" /\ phase = "new"
  /\ IF wrapInitConfigThrows(options) THEN Threw /\ UNCHANGED loads
     ELSE /\ canvasSized' = TRUE
          /\ canvasWidth' = options.clientWidth
          /\ canvasHeight' = options.clientHeight
          /\ loads' = [i \in 1..options.items.v |-> "pending"]
          /\ effects' = <<>>
          /\ phase' = "loading"
          /\ UNCHANGED <<gridItems, bound, observing, scaled, drawCalls,
                         readyCalls>>
  /\ lastOp' = "construct"
  /\ UNCHANGED <<engine, options, images, moveable, disabledH, disabledV,
                 disabled, clearCalls, errorCalls, errorArg, lastDelta,
                 touchedX, touchedY, offX, offY, pans>>

NextNew ==
  \/ ConstructPatch
  \/ ConstructWrap

SpecNew == InitNew /\ [][NextNew]_vars

(***************************************************************************)
(* Wrap engine: the image loads the constructor starts and the rest of     *)
(* #draw (masonry.ts 487-505, 524-549). An image event and the microtasks  *)
(* it releases run as one step.                                            *)
(***************************************************************************)
\* a slip in #loadImages: the promise settles with the first load that does
\* (Promise.race in place of Promise.allSettled)
settledSlip(l) == \E i \in 1..Len(l) : l[i] # "pending"

\* line 539: Promise.allSettled settles once no load is pending
settled(l) == \A i \in 1..Len(l) : l[i] # "pending"

\* a slip in #loadImages: only the first rejection is passed on
reasonsSlip(l) ==
  LET rejected == SelectSeq([i \in 1..Len(l) |-> i], LAMBDA i : l[i] = "failed")
  IN  IF Len(rejected) > 0 THEN <<rejected[1]>> ELSE <<>>

\* lines 540-542: the reasons of the rejected loads, in source order (the
\* reason of source i is written i)
reasons(l) ==
  SelectSeq([i \in 1..Len(l) |-> i], LAMBDA i : l[i] = "failed")

\* lines 489-504, after the await of #loadImages: #prepareImages lays the pool
\* out or reports the reasons, then #draw renders, binds and calls onReady
drawAfterLoad(l) ==
  LET rejected == reasons(l)
      ready == isFunction(options.onReady)
  IN  /\ images' = IF Len(rejected) > 0 THEN images
                   ELSE setImagesPosition(Len(l))
      /\ errorCalls' = errorCalls + (IF Len(rejected) > 0 THEN 1 ELSE 0)
      /\ errorArg' = IF Len(rejected) > 0 THEN rejected ELSE errorArg
      /\ drawCalls' = Len(images')
      /\ bound' = TRUE
      /\ observing' = TRUE
      /\ readyCalls' = readyCalls + (IF ready THEN 1 ELSE 0)
      /\ effects' = (IF Len(rejected) > 0 THEN <<"onError">> ELSE <<>>)
                    \o <<"render", "bindEvent">>
                    \o (IF ready THEN <<"onReady">> ELSE <<>>)
      /\ phase' = "ready"

\* the load of source i ends with the given outcome
imageSettles(i, outcome) ==
  /\ loads[i] = "pending"
  /\ loads' = [loads EXCEPT ![i] = outcome]
  /\ clearCalls' = 0
  /\ IF settled(loads') THEN drawAfterLoad(loads')
     ELSE /\ effects' = <<>>
          /\ UNCHANGED <<images, errorCalls, errorArg, drawCalls, bound,
                         observing, readyCalls, phase>>

LoadFrame ==
  UNCHANGED <<engine, options, canvasWidth, canvasHeight, gridItems, moveable,
              disabledH, disabledV, disabled, canvasSized, scaled, lastDelta,
              touchedX, touchedY, offX, offY, pans>>

\* image.onload of one source (lines 529-531)
imageOnload ==
  /\ engine = "wrap" /\ Loading
  /\ \E i \in 1..Len(loads) : imageSettles(i, "loaded")
  /\ lastOp' = "onload"
  /\ LoadFrame

\* image.onerror of one source (lines 532-534)
imageOnerror ==
  /\ engine = "wrap" /\ Loading
  /\ \E i \in 1..Len(loads) : imageSettles(i, "failed")
  /\ lastOp' = "onerror"
  /\ LoadFrame

LoadOptions ==
  [canvas : {Obj(1)}, ctx2d : {TRUE}, canvasApi : {TRUE},
   clientWidth : 2..MaxCanvas, clientHeight : 2..MaxCanvas,
   items : {Arr(n) : n \in 1..MaxSources},
   width : {Num(n) : n \in 1..MaxItem},
   height : {Num(n) : n \in 1..MaxItem},
   gap : {Num(n) : n \in 0..MaxGap} \cup {Undefined},
   radius : {Undefined},
   redundancy : {Num(n) : n \in 1..MaxRedundancy} \cup {Undefined},
   onReady : {Fn, Undefined}, onError : {Fn, Undefined}]

InitLoad ==
  /\ engine = "wrap"
  /\ options \in LoadOptions
  /\ phase = "new"
  /\ canvasWidth = 0
  /\ canvasHeight = 0
  /\ gridItems = <<>>
  /\ images = <<>>
  /\ moveable = FALSE
  /\ disabledH = FALSE
  /\ disabledV = FALSE
  /\ disabled = FALSE
  /\ bound = FALSE
  /\ observing = FALSE
  /\ canvasSized = FALSE
  /\ scaled = FALSE
  /\ clearCalls = 0
  /\ drawCalls = 0
  /\ readyCalls = 0
  /\ errorCalls = 0
  /\ errorArg = <<>>
  /\ loads = <<>>
  /\ effects = <<>>
  /\ lastOp = "new"
  /\ lastDelta = <<0, 0>>
  /\ touchedX = FALSE
  /\ touchedY = FALSE
  /\ offX = 0
  /\ offY = 0
  /\ pans = 0

NextLoad ==
  \/ ConstructWrap
  \/ imageOnload
  \/ imageOnerror

SpecLoad == InitLoad /\ [][NextLoad]_vars

(***************************************************************************)
(* Claims about the patch engine's pans.                                   *)
(***************************************************************************)
Tiles == flatten(gridItems)

\* the block of tile t holds the point (px, py)
InBlock(t, px, py) ==
  /\ t.x <= px /\ px < t.x + blockWidth
  /\ t.y <= py /\ py < t.y + blockHeight

\* C1: after every pan made with both axes unlocked, every point of the
\* visible rectangle [0, canvasWidth) x [0, canvasHeight) lies in the block
\* of some tile.
C1_VisibleCovered ==
  (engine = "patch" /\ lastOp = "pan") =>
    \A px \in 0..(canvasWidth - 1), py \in 0..(canvasHeight - 1) :
      \E i \in 1..Len(Tiles) : InBlock(Tiles[i], px, py)

\* the grid the constructor built, recomputed from the configuration
InitialTiles ==
  calculateItemPositions(options.items.v, columnCapacity, rowCapacity)

\* C4: after pans (both axes unlocked) whose deltas sum to zero on each
\* axis, every cell origin of the initial grid holds a tile with the source
\* the initial grid had there.
C4_PatchRoundTrip ==
  (engine = "patch" /\ lastOp = "pan" /\ offX = 0 /\ offY = 0) =>
    \A i \in 1..Len(InitialTiles) :
      \E j \in 1..Len(Tiles) : Tiles[j] = InitialTiles[i]

\* one extra column and one extra row on each side of the visible cells
BoundaryMargin == 2 * columnCapacity + 2 * rowCapacity + 4

\* C7: in every state reachable by pans the number of tiles is at least
\* columnCapacity x rowCapacity and at most that plus a constant margin.
C7_TileCountBounds ==
  (engine = "patch" /\ phase = "ready") =>
    /\ Len(Tiles) >= columnCapacity * rowCapacity
    /\ Len(Tiles) <= columnCapacity * rowCapacity + BoundaryMargin

\* C9: the initial grid has rowCapacity rows of columnCapacity tiles, and
\* the tile at linear index i has source items[i mod items.length],
\* x = (i mod columnCapacity) * blockWidth and
\* y = floor(i / columnCapacity) * blockHeight.
C9_InitialGrid ==
  (engine = "patch" /\ lastOp = "construct") =>
    /\ Len(Tiles) = columnCapacity * rowCapacity
    /\ Len(gridItems) = rowCapacity
    /\ \A r \in 1..Len(gridItems) :
         /\ Len(gridItems[r]) = columnCapacity
         /\ \A c \in 1..Len(gridItems[r]) :
              LET i == (r - 1) * columnCapacity + (c - 1)
              IN  /\ gridItems[r][c].source = (i % options.items.v) + 1
                  /\ gridItems[r][c].x = (c - 1) * blockWidth
                  /\ gridItems[r][c].y = (r - 1) * blockHeight

\* an initial grid of several rows and columns that repeats its sources
C9_Witness ==
  /\ engine = "patch" /\ lastOp = "construct"
  /\ Len(gridItems) >= 2
  /\ Len(gridItems[1]) = 3
  /\ options.items.v = 2
  /\ gridItems[2][1].source = 2

(***************************************************************************)
(* Claims about the wrap engine's moves.                                   *)
(***************************************************************************)
\* the block of pool tile t holds the point (px, py)
InWrapBlock(t, px, py) ==
  /\ t.x <= px /\ px < t.x + wrapBlockWidth
  /\ t.y <= py /\ py < t.y + wrapBlockHeight

\* C2: after any sequence of #move calls every point of the visible canvas
\* lies in the block of exactly one tile (no gap, no overlap).
C2_WrapTilesCanvas ==
  (engine = "wrap" /\ lastOp = "move") =>
    \A px \in 0..(canvasWidth - 1), py \in 0..(canvasHeight - 1) :
      Cardinality({i \in 1..Len(images) : InWrapBlock(images[i], px, py)}) = 1

\* C3: after #move calls whose deltas sum to zero on each axis every tile
\* is back at the position #setImagesPosition gave it.
C3_WrapRoundTrip ==
  (engine = "wrap" /\ lastOp = "move" /\ offX = 0 /\ offY = 0) =>
    images = setImagesPosition(options.items.v)

\* C8: every tile of the wrap engine has -itemWidth <= x < rangeWidth and
\* -itemHeight <= y < rangeHeight, in the initial pool and after every #move.
C8_WrapCoordinateRange ==
  (engine = "wrap" /\ phase = "ready") =>
    \A i \in 1..Len(images) :
      /\ 0 - itemWidth <= images[i].x /\ images[i].x < rangeWidth
      /\ 0 - itemHeight <= images[i].y /\ images[i].y < rangeHeight

(***************************************************************************)
(* Claims about the axis locks and the input handlers.                     *)
(***************************************************************************)
\* the step is a pointer-move or wheel event that panned the patch grid
PatchPanStep ==
  /\ engine = "patch"
  /\ lastOp' \in {"mousemove", "wheel"}
  /\ pans' = pans + 1

\* every tile still inside the bounds after the pan is in the new grid with
\* its source, shifted by (dx, dy)
Survivors(dx, dy) ==
  \A i \in 1..Len(Tiles) :
    ~isOutOfBounds(Tiles[i].x + dx, Tiles[i].y + dy) =>
      \E j \in 1..Len(flatten(gridItems')) :
        flatten(gridItems')[j] = [source |-> Tiles[i].source,
                                   x |-> Tiles[i].x + dx,
                                   y |-> Tiles[i].y + dy]

\* C5: while only the horizontal axis is locked a pan changes no tile's x,
\* whatever dx is: the tiles that stay in the grid keep their x and move by
\* dy; symmetrically for a lock of the vertical axis only.
C5_AxisLock ==
  [][PatchPanStep =>
       /\ (disabledH /\ ~disabledV) =>
            ~touchedX' /\ Survivors(0, lastDelta'[2])
       /\ (disabledV /\ ~disabledH) =>
            ~touchedY' /\ Survivors(lastDelta'[1], 0)]_vars

\* a drag with dx # 0 and dy # 0 was handled under a horizontal lock, and the
\* tiles moved vertically
C5_Witness ==
  /\ engine = "patch" /\ lastOp = "mousemove"
  /\ disabledH /\ ~disabledV
  /\ lastDelta[1] # 0 /\ lastDelta[2] # 0
  /\ touchedY /\ ~touchedX
  /\ pans = 2

\* the step is a pointer-move or wheel event
MoveOrWheelStep == lastOp' \in {"mousemove", "wheel"}

\* both axes locked: #disabled.horizontal and #disabled.vertical in the patch
\* engine, #disabled in the wrap engine
AllLocked ==
  \/ engine = "patch" /\ disabledH /\ disabledV
  \/ engine = "wrap" /\ disabled

\* C6: with both axes locked a pointer-move or wheel event leaves the tile
\* collection as it is, does not clear the canvas and draws nothing.
C6_LockedNoOp ==
  [][(MoveOrWheelStep /\ AllLocked) =>
       /\ gridItems' = gridItems
       /\ images' = images
       /\ clearCalls' = 0
       /\ drawCalls' = 0]_vars

\* a pointer-move arrived during a drag with both axes locked, after an
\* earlier pan had cleared and redrawn the canvas
C6_Witness ==
  /\ engine = "patch" /\ lastOp = "mousemove"
  /\ moveable /\ disabledH /\ disabledV
  /\ pans >= 1
  /\ clearCalls = 0 /\ drawCalls = 0

(***************************************************************************)
(* Claims about construction.                                              *)
(***************************************************************************)
\* the configuration has an empty source list, a non-positive item width or
\* a negative gap
BadConfig ==
  \/ options.items = Arr(0)
  \/ options.width.t = "number" /\ options.width.v <= 0
  \/ options.gap.t = "number" /\ options.gap.v < 0

\* nothing was done to the canvas and no callback was invoked
CanvasUntouched ==
  /\ ~canvasSized /\ ~scaled
  /\ canvasWidth = 0 /\ canvasHeight = 0
  /\ clearCalls = 0 /\ drawCalls = 0
  /\ ~bound
  /\ readyCalls = 0 /\ errorCalls = 0

\* C10: construction with an empty source list, a non-positive item width or
\* a negative gap throws, in both engines, and leaves the canvas untouched:
\* no size assigned, no scale, no draw, no listener, no onReady or onError.
C10_BadConfigThrows ==
  (lastOp = "construct" /\ BadConfig) =>
    phase = "threw" /\ CanvasUntouched

\* the wrap engine's constructor threw on a configuration whose only defect
\* is a negative gap
C10_Witness ==
  /\ engine = "wrap" /\ phase = "threw"
  /\ options.gap = Num(-1)
  /\ options.items.v > 0 /\ options.width.v > 0 /\ options.height.v > 0
  /\ options.redundancy = Undefined /\ options.ctx2d
  /\ isFunction(options.onError)

\* the configuration has a non-positive style dimension, a negative gap, a
\* negative radius or, in the wrap engine, a configured redundancy below 1
InvalidStyle ==
  \/ options.width.t = "number" /\ options.width.v <= 0
  \/ options.height.t = "number" /\ options.height.v <= 0
  \/ options.gap.t = "number" /\ options.gap.v < 0
  \/ options.radius.t = "number" /\ options.radius.v < 0
  \/ engine = "wrap" /\ options.redundancy.t = "number"
       /\ options.redundancy.v < 1

\* C11: construction throws, before any grid or pool is built, whenever the
\* item width or height is not positive, the gap or the radius is negative,
\* or a configured redundancy is below 1 (each of them on its own).
C11_InvalidStyleThrows ==
  (lastOp = "construct" /\ InvalidStyle) =>
    phase = "threw" /\ gridItems = <<>> /\ images = <<>>

\* the configuration the patch engine documents as valid: a canvas with a 2D
\* context, a non-empty source array, positive width and height, and gap,
\* onReady, onError either omitted or valid
WellFormed ==
  /\ options.canvasApi /\ options.ctx2d
  /\ options.items.t = "array" /\ options.items.v > 0
  /\ options.width.t = "number" /\ options.width.v > 0
  /\ options.height.t = "number" /\ options.height.v > 0
  /\ options.gap = Undefined \/ (options.gap.t = "number" /\ options.gap.v >= 0)
  /\ options.onReady \in {Undefined, Fn}
  /\ options.onError \in {Undefined, Fn}

\* C12: the patch engine's constructor accepts every well-formed
\* configuration: Validator.validate returns valid with no error message and
\* the constructor goes on to build the grid.
C12_PatchAcceptsWellFormed ==
  (engine = "patch" /\ lastOp = "construct" /\ WellFormed) =>
    /\ validate(options).valid
    /\ validate(options).errors = <<>>
    /\ phase = "ready"
    /\ Len(gridItems) > 0

(***************************************************************************)
(* Claims about resize() and the shape of the patch grid.                  *)
(***************************************************************************)
\* the step is a resize() to a canvas that is smaller on some axis and larger
\* on none
ResizeSmallerStep ==
  /\ lastOp' = "resize"
  /\ canvasWidth' <= canvasWidth /\ canvasHeight' <= canvasHeight
  /\ canvasWidth' < canvasWidth \/ canvasHeight' < canvasHeight

\* C13: a resize() to a smaller canvas renders strictly fewer tiles than were
\* rendered before it in the patch engine, and the same number of tiles in
\* the wrap engine.
C13_ResizeSmaller ==
  [][ResizeSmallerStep =>
       IF engine = "patch"
       THEN drawCalls' < renderCalls(gridItems)
       ELSE drawCalls' = Len(images) /\ Len(images') = Len(images)]_vars

\* the tiles of a row are in strictly ascending x order
RowAscending(row) ==
  \A c \in 1..(Len(row) - 1) : row[c].x < row[c + 1].x

\* C14: in every state reached by pans and resize() calls the tiles of each
\* row are in strictly ascending x order and the rows are in strictly
\* ascending order of the y of their first tile.
C14_GridOrdered ==
  (engine = "patch" /\ phase = "ready") =>
    /\ \A r \in 1..Len(gridItems) : RowAscending(gridItems[r])
    /\ \A r \in 1..(Len(gridItems) - 1) :
         gridItems[r][1].y < gridItems[r + 1][1].y

\* the source that follows source s in the cyclic order of the source list
NextSource(s) == (s % options.items.v) + 1

\* C15: after any sequence of pans the sources of consecutive tiles of every
\* row are consecutive elements of the source list in cyclic order.
C15_CyclicSources ==
  (engine = "patch" /\ lastOp \in {"construct", "pan"}) =>
    \A r \in 1..Len(gridItems) :
      \A c \in 1..(Len(gridItems[r]) - 1) :
        gridItems[r][c + 1].source = NextSource(gridItems[r][c].source)

(***************************************************************************)
(* Claims about the wrap engine's image loads.                             *)
(***************************************************************************)
AllSettled == \A i \in 1..Len(loads) : loads[i] # "pending"

Failed == {i \in 1..Len(loads) : loads[i] = "failed"}

\* C16: when some image load fails, onError is called exactly once for the
\* load, not before every load has settled, and its argument lists the reason
\* of every failed source, whatever the order in which the loads settled.
C16_LoadFailureAggregated ==
  (engine = "wrap" /\ Len(loads) > 0) =>
    /\ ~AllSettled => errorCalls = 0
    /\ (AllSettled /\ Failed # {}) =>
         /\ errorCalls = 1
         /\ Len(errorArg) = Cardinality(Failed)
         /\ {errorArg[k] : k \in 1..Len(errorArg)} = Failed

\* two sources failed, the second load to settle being the second failure
C16_Witness ==
  /\ engine = "wrap" /\ lastOp = "onerror"
  /\ loads = <<"failed", "failed">>
  /\ errorCalls = 1
  /\ errorArg = <<1, 2>>

\* C17: when some image load fails the constructor's work stops there:
\* nothing is rendered, no listener and no resize observer is bound, onReady
\* is never called.
C17_LoadFailureStops ==
  (engine = "wrap" /\ Len(loads) > 0 /\ Failed # {}) =>
    /\ drawCalls = 0
    /\ ~bound /\ ~observing
    /\ readyCalls = 0

\* C18: when every load succeeds and onReady is configured, onReady is called
\* exactly once, not before every load has resolved, after the render of the
\* whole pool and the binding of the listeners, and onError is not called.
C18_ReadyOnce ==
  (engine = "wrap" /\ Len(loads) > 0 /\ isFunction(options.onReady)
     /\ Failed = {}) =>
    /\ ~AllSettled => readyCalls = 0
    /\ AllSettled =>
         /\ readyCalls = 1
         /\ errorCalls = 0
         /\ effects = <<"render", "bindEvent", "onReady">>
         /\ images = setImagesPosition(options.items.v)
         /\ drawCalls = Len(images)
         /\ bound /\ observing

\* two sources loaded, and the pool of more tiles than sources was rendered
C18_Witness ==
  /\ engine = "wrap" /\ lastOp = "onload"
  /\ loads = <<"loaded", "loaded">>
  /\ readyCalls = 1
  /\ drawCalls > 2
  /\ effects = <<"render", "bindEvent", "onReady">>

(***************************************************************************)
(* Claims about teardown.                                                  *)
(***************************************************************************)
\* the handlers of the canvas's events and of the resize observer
EventOps ==
  {"mousedown", "mouseup", "mouseleave", "mousemove", "wheel", "resize"}

\* C19: once destroy() of the patch engine has returned, its listeners and
\* its resize observer are released: no pointer, wheel or resize event
\* changes the grid, clears the canvas or draws on it.
C19_DestroyReleases ==
  [][(engine = "patch" /\ phase = "destroyed" /\ lastOp' \in EventOps) =>
       /\ gridItems' = gridItems
       /\ clearCalls' = 0
       /\ drawCalls' = 0]_vars

(***************************************************************************)
(* Claims about a failing draw.                                            *)
(***************************************************************************)
\* a drawImage call threw during the step's redraw
DrawFailedStep == \E i \in 1..Len(effects') : effects'[i] = "drawFailed"

\* the exception left the handler
Propagated == \E i \in 1..Len(effects') : effects'[i] = "throw"

\* the tile collection the step's handler leaves when no draw fails
Redrawn ==
  IF lastOp' = "resize"
  THEN IF engine = "patch"
       THEN chunk(flatten(gridItems), Ceil(canvasWidth', blockWidth))
       ELSE images
  ELSE IF engine = "patch"
       THEN stitch(translateGrid(gridItems, lastDelta'[1], lastDelta'[2]),
                   lastDelta'[1], lastDelta'[2])
       ELSE [i \in 1..Len(images) |->
               moveImage(images[i], lastDelta'[1], lastDelta'[2])]

\* C20: when a drawImage call fails during the redraw of a pan or a resize,
\* the failure is passed to onError, it does not leave the event handler, and
\* the tile collection is either untouched or updated as a whole.
C20_DrawFailureReported ==
  [][DrawFailedStep =>
       /\ errorCalls' = errorCalls + 1
       /\ ~Propagated
       /\ IF engine = "patch" THEN gridItems' \in {gridItems, Redrawn}
          ELSE images' \in {images, Redrawn}]_vars

(***************************************************************************)
(* Claims about the wrap engine's pool.                                    *)
(***************************************************************************)
\* the number of tiles #setImagesPosition laid out for the canvas the
\* constructor measured
InitialPoolSize ==
  (Ceil(options.clientWidth, wrapBlockWidth) + 2 * redundancy)
    * (Ceil(options.clientHeight, wrapBlockHeight) + 2 * redundancy)

\* C21: the pool has the (capacityX + 2 * redundancy) x (capacityY + 2 *
\* redundancy) tiles it was initialised with, and no #move or resize() call
\* adds a tile, removes one or changes the image a tile refers to.
C21_FixedPool ==
  (engine = "wrap" /\ phase = "ready") =>
    /\ Len(images) = InitialPoolSize
    /\ \A i \in 1..Len(images) :
         images[i].image = ((i - 1) % options.items.v) + 1

\* the pool was moved and the canvas then resized to a smaller capacity than
\* the pool was laid out for
C21_Witness ==
  /\ engine = "wrap" /\ lastOp = "resize"
  /\ pans >= 1
  /\ capacityX < Ceil(options.clientWidth, wrapBlockWidth)
  /\ images # setImagesPosition(options.items.v)
  /\ Len(images) > (capacityX + 2 * redundancy) * (capacityY + 2 * redundancy)

(***************************************************************************)
(* Claims about the stitching of the patch grid.                           *)
(***************************************************************************)
\* the step is a call of #updateGridPosition that reached the translation
GridPanStep ==
  /\ engine = "patch"
  /\ lastOp' \in {"pan", "mousemove", "wheel"}
  /\ pans' = pans + 1

\* the tiles of a translated row that pass the overflow test
Kept(row) == SelectSeq(row, LAMBDA e : ~isOutOfBounds(e.x, e.y))

\* the translated row gets a tile in front of it
Prepends(row, dx) == dx > 0 /\ row[1].x > gap

\* the translated row gets a tile behind it
Appends(row, dx) == dx < 0 /\ row[Len(row)].x < canvasWidth - blockWidth

\* what the claim says a translated, non-empty row becomes
StitchedRow(row, dx) ==
  (IF Prepends(row, dx)
   THEN << [source |-> row[Len(row)].source,
            x |-> row[1].x - blockWidth,
            y |-> row[1].y] >>
   ELSE <<>>)
  \o Kept(row)
  \o (IF Appends(row, dx)
      THEN << [source |-> row[1].source,
               x |-> row[Len(row)].x + blockWidth,
               y |-> row[Len(row)].y] >>
      ELSE <<>>)

\* the rows the claim expects from the rows of the grid, those left without
\* a tile taken out
StitchedRows(dx, dy) ==
  LET moved == translateGrid(gridItems, dx, dy)
      rows == [r \in 1..Len(moved) |-> StitchedRow(moved[r], dx)]
  IN  SelectSeq(rows, LAMBDA row : Len(row) > 0)

\* C22: a pan turns every non-empty row into: one tile prepended iff dx > 0
\* and the translated leftmost tile has x > gap, at leftmost.x - blockWidth
\* with the source of the rightmost tile before eviction; the translated tiles
\* that pass the overflow test; one tile appended iff dx < 0 and the rightmost
\* tile has x < canvasWidth - blockWidth, at rightmost.x + blockWidth with the
\* leftmost tile's source. With dx = 0 no tile is synthesized.
C22_HorizontalStitch ==
  [][GridPanStep =>
       LET expected == StitchedRows(lastDelta'[1], lastDelta'[2])
       IN  \E k \in 0..1 :
             /\ Len(gridItems') >= k + Len(expected)
             /\ Len(gridItems') <= Len(expected) + 1
             /\ SubSeq(gridItems', k + 1, k + Len(expected)) = expected]_vars

\* the first pan moved a full row right by more than the gap: its last tile
\* left the canvas and a tile with that tile's source was put in front
C22_Witness ==
  /\ engine = "patch" /\ lastOp = "pan" /\ pans = 1
  /\ lastDelta[1] = 2 /\ lastDelta[2] = 0
  /\ options.items.v = 2 /\ columnCapacity = 3
  /\ Len(gridItems[1]) = 3
  /\ gridItems[1][1] = [source |-> 1, x |-> 2 - blockWidth, y |-> 0]
  /\ gridItems[1][3].source = 2

\* one tile per tile of the row, with its source and x, at the given y
Clone(row, y) ==
  [c \in 1..Len(row) |-> [source |-> row[c].source, x |-> row[c].x, y |-> y]]

\* the rows get a row above them
PrependsRow(rows, dy) == dy > 0 /\ Len(rows) > 0 /\ rows[1][1].y > gap

\* the rows get a row below them
AppendsRow(rows, dy) ==
  dy < 0 /\ Len(rows) > 0
    /\ rows[Len(rows)][1].y < canvasHeight - blockHeight

\* C23: a pan leaves the surviving rows (the rows without a tile are taken
\* out), with one row prepended iff dy > 0 and the first surviving row's y
\* exceeds gap, at firstRow.y - blockHeight and cloned from the last surviving
\* row, and one row appended iff dy < 0 and the last surviving row's y is
\* below canvasHeight - blockHeight, at lastRow.y + blockHeight and cloned
\* from the first surviving row. With dy = 0 no row is added.
C23_VerticalStitch ==
  [][GridPanStep =>
       LET dy == lastDelta'[2]
           rows == StitchedRows(lastDelta'[1], dy)
           top == IF PrependsRow(rows, dy)
                  THEN << Clone(rows[Len(rows)], rows[1][1].y - blockHeight) >>
                  ELSE <<>>
           bottom == IF AppendsRow(rows, dy)
                     THEN << Clone(rows[1],
                                   rows[Len(rows)][1].y + blockHeight) >>
                     ELSE <<>>
       IN  gridItems' = top \o rows \o bottom]_vars

\* the first pan moved three rows down by more than the gap: the last row
\* left the canvas and was removed, and a clone of the last surviving row was
\* put above the first
C23_Witness ==
  /\ engine = "patch" /\ lastOp = "pan" /\ pans = 1
  /\ lastDelta[1] = 0 /\ lastDelta[2] = 2
  /\ options.items.v = 2 /\ columnCapacity = 3 /\ rowCapacity = 3
  /\ Len(gridItems) = 3
  /\ gridItems[1][1] = [source |-> 2, x |-> 0, y |-> 2 - blockHeight]
  /\ gridItems[2][1].source = 1
  /\ gridItems[3][1].source = 2

(***************************************************************************)
(* Claims about the drag state.                                            *)
(***************************************************************************)
\* the step changes no tile, does not clear the canvas and draws nothing
NothingDrawn ==
  /\ gridItems' = gridItems
  /\ images' = images
  /\ clearCalls' = 0
  /\ drawCalls' = 0

\* C24: the drag state is inactive at construction, a pointer-down makes it
\* active, a pointer-up or pointer-leave inactive, and no other handler
\* changes it; a pointer-move pans, by (movementX, movementY), only while it
\* is active, and changes no tile and draws nothing while it is inactive.
C24_DragStateMachine ==
  /\ lastOp = "construct" => ~moveable
  /\ [][/\ lastOp' = "mousedown" => moveable'
        /\ lastOp' \in {"mouseup", "mouseleave"} => ~moveable'
        /\ lastOp' \notin {"mousedown", "mouseup", "mouseleave"} =>
             moveable' = moveable
        /\ (lastOp' = "mousemove" /\ pans' # pans) => moveable
        /\ (lastOp' = "mousemove" /\ ~moveable) => NothingDrawn]_vars

\* a pointer-move arrived after a drag of the wrap engine had ended
C24_Witness ==
  /\ engine = "wrap" /\ lastOp = "mousemove"
  /\ ~moveable /\ ~disabled
  /\ pans >= 1
  /\ clearCalls = 0 /\ drawCalls = 0

(***************************************************************************)
(* The patch engine under pans of any size and any setting of the axis     *)
(* locks (masonry.ts 141-149, 234-258).                                    *)
(***************************************************************************)
\* the deltas of a pan: the small ones, and one in each direction that
\* carries a tile at the canvas's origin past the far edge
Jumps == Deltas \cup {0 - (MaxCanvas + 1), MaxCanvas + 1}

\* one call of #updateGridPosition under the current locks
PanLocked ==
  /\ engine = "patch" /\ phase = "ready"
  /\ pans < MaxPans
  /\ \E x \in Jumps, y \in Jumps : updateGridPosition(x, y)
  /\ lastOp' = "pan"
  /\ UNCHANGED <<engine, options, phase, canvasWidth, canvasHeight, images,
                 moveable, disabledH, disabledV, disabled, bound, observing,
                 canvasSized, scaled, readyCalls, errorCalls, errorArg, loads>>

InitLock ==
  /\ InitPatch
  /\ ResizeGeometry(options)

NextLock ==
  \/ PanLocked
  \/ enable
  \/ disable

SpecLock == InitLock /\ [][NextLock]_vars

(***************************************************************************)
(* Claims about the shape of the patch grid under pans.                    *)
(***************************************************************************)
\* C25: in every state reached from construction by pans, whatever the
\* deltas and the axis locks, the grid holds at least one row with at least
\* one tile.
C25_GridNeverEmpty ==
  (engine = "patch" /\ phase = "ready") =>
    \E r \in 1..Len(gridItems) : Len(gridItems[r]) > 0

\* the x coordinates of a row, in order
RowXs(row) == [c \in 1..Len(row) |-> row[c].x]

\* C26: after any sequence of pans with both axes unlocked, all rows hold
\* the same number of tiles at the same x coordinates, the tiles of a row
\* share one y, consecutive tiles of a row are blockWidth apart and
\* consecutive rows blockHeight apart.
C26_RectangularLattice ==
  (engine = "patch" /\ lastOp \in {"construct", "pan"}
     /\ ~disabledH /\ ~disabledV) =>
    /\ \A r \in 1..Len(gridItems) :
         /\ RowXs(gridItems[r]) = RowXs(gridItems[1])
         /\ \A c \in 1..Len(gridItems[r]) :
              gridItems[r][c].y = gridItems[r][1].y
         /\ \A c \in 1..(Len(gridItems[r]) - 1) :
              gridItems[r][c + 1].x = gridItems[r][c].x + blockWidth
    /\ \A r \in 1..(Len(gridItems) - 1) :
         gridItems[r + 1][1].y = gridItems[r][1].y + blockHeight

\* the step is a resize() of the patch engine made while the canvas's client
\* size is what it was at the last measurement
SameSizeResizeStep ==
  /\ engine = "patch"
  /\ lastOp' = "resize"
  /\ canvasWidth' = canvasWidth /\ canvasHeight' = canvasHeight

\* C27: a resize() of the patch engine made while the canvas's client size
\* is unchanged leaves the grid as it was: the same rows with the same tiles
\* in the same order.
C27_ResizeIdempotent ==
  [][SameSizeResizeStep => gridItems' = gridItems]_vars

(***************************************************************************)
(* Claims about the axis locks of the patch engine.                        *)
(***************************************************************************)
\* the rows of the grid after the translation and the overflow test alone
KeptRows(dx, dy) ==
  LET moved == translateGrid(gridItems, dx, dy)
      rows == [r \in 1..Len(moved) |-> Kept(moved[r])]
  IN  SelectSeq(rows, LAMBDA row : Len(row) > 0)

\* the rows with the row the vertical stitching puts above or below them
WithPatchRow(rows, dy) ==
  (IF PrependsRow(rows, dy)
   THEN << Clone(rows[Len(rows)], rows[1][1].y - blockHeight) >>
   ELSE <<>>)
  \o rows
  \o (IF AppendsRow(rows, dy)
      THEN << Clone(rows[1], rows[Len(rows)][1].y + blockHeight) >>
      ELSE <<>>)

\* C28: a pan made while exactly one axis is locked synthesizes nothing
\* along the locked axis: under a horizontal lock no row gets a tile in front
\* of it or behind it, whatever dx is (the rows are the surviving tiles, and
\* rows are added above or below as dy asks); under a vertical lock no row is
\* added above or below the grid, whatever dy is.
C28_LockedAxisFrame ==
  [][GridPanStep =>
       /\ (disabledH /\ ~disabledV) =>
            gridItems' = WithPatchRow(KeptRows(lastDelta'[1], lastDelta'[2]),
                                      lastDelta'[2])
       /\ (disabledV /\ ~disabledH) =>
            gridItems' = StitchedRows(lastDelta'[1], lastDelta'[2])]_vars

\* C29: after enable(h, v) every axis whose argument is true is unlocked,
\* and enable() unlocks both axes; after disable(h, v) every axis whose
\* argument is true is locked, and disable() locks both axes.
C29_LockToggles ==
  [][/\ \A h \in BOOLEAN, v \in BOOLEAN :
          enableWith(h, v) => /\ h => ~disabledH'
                              /\ v => ~disabledV'
     /\ enableWith(FALSE, FALSE) => ~disabledH' /\ ~disabledV'
     /\ \A h \in BOOLEAN, v \in BOOLEAN :
          disableWith(h, v) => /\ h => disabledH'
                               /\ v => disabledV'
     /\ disableWith(TRUE, TRUE) => disabledH' /\ disabledV']_vars

(***************************************************************************)
(* The wrap engine's image loads with a destroy() that may come before     *)
(* they settle (masonry.ts 496-505, 519-549).                              *)
(***************************************************************************)
NextRace ==
  \/ ConstructWrap
  \/ imageOnload
  \/ imageOnerror
  \/ wrapDestroy

SpecRace == InitLoad /\ [][NextRace]_vars

(***************************************************************************)
(* Claims about a teardown that races with the loading.                    *)
(***************************************************************************)
\* C30: when destroy() of the wrap engine is called before the image loads
\* have settled, the loads that settle later draw nothing, bind no listener
\* and no resize observer, and do not call onReady.
C30_DestroyBeforeLoad ==
  [][(engine = "wrap" /\ phase = "loadingDestroyed"
        /\ lastOp' \in {"onload", "onerror"}) =>
       /\ drawCalls' = 0
       /\ ~bound' /\ ~observing'
       /\ readyCalls' = readyCalls]_vars

====
